---- MODULE Spec2Model ----
(***************************************************************************)
(* Model of src/fed.py: federated linear regression in which every party   *)
(* encrypts its gradient under the server's Paillier public key, the       *)
(* server sums the ciphertext vectors, divides by n_clients, decrypts, and *)
(* every party applies the decrypted aggregate to its own weights.         *)
(*                                                                         *)
(* Real numbers are exact rationals <<numerator, denominator>> in lowest   *)
(* terms with a positive denominator, so that "equal within floating       *)
(* tolerance" becomes plain equality.                                      *)
(***************************************************************************)
EXTENDS Integers, Sequences, FiniteSets, TLC

(* ------------------------------ bounds -------------------------------- *)

\* config['n_clients'] ranges over 1..MaxClients
MaxClients == 4
\* len(X) = len(y), the number of local datasets handed in, is 1..MaxData
MaxData == 3
\* config['n_iter'] ranges over 0..MaxIter
MaxIter == 2

(* ---------------------------- rationals ------------------------------- *)

Abs(n) == IF n < 0 THEN -n ELSE n

RECURSIVE GCD(_, _)
GCD(a, b) == IF b = 0 THEN a ELSE GCD(b, a % b)

Rat(n, d) ==
    LET g == GCD(Abs(n), Abs(d))
        s == IF d < 0 THEN -1 ELSE 1
    IN  <<(s * n) \div g, (s * d) \div g>>

R(n) == <<n, 1>>

RAdd(a, b) ==
    LET g == GCD(a[2], b[2])
    IN  Rat(a[1] * (b[2] \div g) + b[1] * (a[2] \div g), a[2] * (b[2] \div g))

RNeg(a) == <<-a[1], a[2]>>

RSub(a, b) == RAdd(a, RNeg(b))

RMul(a, b) ==
    LET g1 == GCD(Abs(a[1]), b[2])
        g2 == GCD(Abs(b[1]), a[2])
    IN  Rat((a[1] \div g1) * (b[1] \div g2), (a[2] \div g2) * (b[2] \div g1))

\* division by a non-zero integer
RDivInt(a, n) == RMul(a, Rat(1, n))

(* ----------------------------- vectors -------------------------------- *)

RECURSIVE RSum(_)
RSum(s) == IF s = <<>> THEN R(0) ELSE RAdd(Head(s), RSum(Tail(s)))

\* np.zeros(d)
Zeros(d) == [j \in 1..d |-> R(0)]

\* numpy's broadcasting of two 1-d operands: equal lengths, or one of length 1
Broadcastable(x, y) == Len(x) = Len(y) \/ Len(x) = 1 \/ Len(y) = 1

At(x, j) == IF Len(x) = 1 THEN x[1] ELSE x[j]

MaxLen(x, y) == IF Len(x) >= Len(y) THEN Len(x) ELSE Len(y)

\* x.dot(y) for two vectors of one length
Dot(x, y) == RSum([j \in 1..Len(x) |-> RMul(x[j], y[j])])

(* ------------------------- Paillier (phe) ----------------------------- *)

\* paillier.generate_paillier_keypair: the two halves of one key pair
KeyPair == [pubkey |-> [kind |-> "public", id |-> "K"],
            privkey |-> [kind |-> "private", id |-> "K"]]

\* public_key.encrypt(v): a ciphertext carries the key it was made under
Encrypt(public_key, v) == [pk |-> public_key.id, pt |-> v]

IsCiphertext(e) == DOMAIN e = {"pk", "pt"}

\* private_key.decrypt(e), defined when e was made under the matching key
CanDecrypt(private_key, e) ==
    private_key.kind = "private" /\ IsCiphertext(e) /\ e.pk = private_key.id

Decrypt(private_key, e) == e.pt

\* EncryptedNumber.__add__ and EncryptedNumber.__truediv__
CtAdd(a, b) == [pk |-> a.pk, pt |-> RAdd(a.pt, b.pt)]

CtDiv(a, n) == [pk |-> a.pk, pt |-> RDivInt(a.pt, n)]

encrypt_vector(public_key, x) == [j \in 1..Len(x) |-> Encrypt(public_key, x[j])]

decrypt_vector(private_key, x) == [j \in 1..Len(x) |-> Decrypt(private_key, x[j])]

\* sum_encrypted_vectors: the guarded element-wise sum (not called by
\* hybrid_learning)
sum_encrypted_vectors(x, y) ==
    IF Len(x) # Len(y)
    THEN [err |-> "ValueError"]
    ELSE [err |-> "none", val |-> [j \in 1..Len(x) |-> CtAdd(x[j], y[j])]]

(* ------------------------------ numpy --------------------------------- *)

SameLengths(gs) == \A p, q \in 1..Len(gs) : Len(gs[p]) = Len(gs[q])

\* a + b on two 1-d arrays of ciphertexts, with numpy's broadcasting
BroadcastAdd(a, b) ==
    IF Broadcastable(a, b)
    THEN [err |-> "none",
          val |-> [j \in 1..MaxLen(a, b) |-> CtAdd(At(a, j), At(b, j))]]
    ELSE [err |-> "ValueError"]

\* the left fold ((g1 + g2) + g3) + ... of an object array of arrays
RECURSIVE FoldAdd(_, _)
FoldAdd(acc, gs) ==
    IF gs = <<>> THEN [err |-> "none", val |-> acc]
    ELSE LET r == BroadcastAdd(acc, Head(gs))
         IN  IF r.err # "none" THEN r ELSE FoldAdd(r.val, Tail(gs))

\* np.sum(gs, axis=0) on a non-empty list of 1-d arrays.  Equal lengths:
\* the column sums of the 2-d array.  Unequal lengths: numpy >= 1.24 refuses
\* to build the ragged array (ValueError); older numpy builds an object array
\* of arrays and adds them, broadcasting a length-1 vector.  legacy says
\* which numpy the program runs on.
np_sum(gs, legacy) ==
    IF SameLengths(gs) \/ legacy
    THEN FoldAdd(Head(gs), Tail(gs))
    ELSE [err |-> "ValueError"]

(* ---------------------------- class Net ------------------------------- *)

\* Net_init with a fault: the weights start from the party's own data (its
\* first row) instead of from zero
Net_init_FromData(X, y) == [X |-> X, y |-> y, weights |-> X[1]]

\* Net.__init__: self.weights = np.zeros(X.shape[1])
Net_init(X, y) == [X |-> X, y |-> y, weights |-> Zeros(Len(X[1]))]

\* Net.predict(X): X.dot(self.weights)
predict(net, X) == [r \in 1..Len(X) |-> Dot(X[r], net.weights)]

\* Net.compute_gradient: delta.dot(self.X) / len(self.X)
compute_gradient(net) ==
    LET p == predict(net, net.X)
        delta == [r \in 1..Len(net.X) |-> RSub(p[r], net.y[r])]
    IN  [j \in 1..Len(net.X[1]) |->
            RDivInt(RSum([r \in 1..Len(net.X) |-> RMul(delta[r], net.X[r][j])]),
                    Len(net.X))]

\* the in-place  self.weights -= eta * gradient : the right operand must
\* broadcast to the shape of self.weights
CanStep(weights, gradient) == Len(gradient) = Len(weights) \/ Len(gradient) = 1

gradient_step(weights, gradient, eta) ==
    [j \in 1..Len(weights) |-> RSub(weights[j], RMul(eta, At(gradient, j)))]

(* --------------------------- class Party ------------------------------ *)

\* Party.__init__
Party_init(name, X, y, pubkey) ==
    [name |-> name, model |-> Net_init(X, y), pubkey |-> pubkey]

\* Party.get_noise: random.random() * 0.01, a value of [0, 0.01)
NoiseValues == {R(0), Rat(1, 128)}

\* Party.compute_partial_gradient with the noise drawn: the noise is one
\* scalar added to every coordinate, and the result is encrypted
compute_partial_gradient(party, noise) ==
    LET gradient == compute_gradient(party.model)
        noisy_gradient == [j \in 1..Len(gradient) |-> RAdd(gradient[j], noise)]
    IN  encrypt_vector(party.pubkey, noisy_gradient)

(* --------------------------- class Server ----------------------------- *)

\* Server.__init__
Server_init(key_length, n_clients) ==
    [pubkey |-> KeyPair.pubkey, privkey |-> KeyPair.privkey,
     n_clients |-> n_clients]

\* Server.aggregate_gradients: np.sum(gradients, axis=0) / self.n_clients
aggregate_gradients(server, gs, legacy) ==
    LET s == np_sum(gs, legacy)
    IN  IF s.err # "none" THEN s
        ELSE [err |-> "none",
              val |-> [j \in 1..Len(s.val) |-> CtDiv(s.val[j], server.n_clients)]]

\* Server.decrypt_gradient
decrypt_gradient(server, gradient) == decrypt_vector(server.privkey, gradient)

(* ------------------------------ inputs -------------------------------- *)

\* local datasets: a feature matrix (rows of D features, the last one the
\* constant 1 of get_data) and a target vector with one entry per row
DataA == [X |-> << <<R(1), R(1)>>, <<R(2), R(1)>> >>, y |-> <<R(1), R(3)>>]
DataB == [X |-> << <<R(0), R(1)>> >>, y |-> <<R(2)>>]
DataC == [X |-> << <<R(1)>> >>, y |-> <<R(1)>>]
DataE == [X |-> << <<R(1), R(2), R(1)>> >>, y |-> <<R(2)>>]

\* n datasets with the same two features
Uniform(n) == [k \in 1..n |-> IF k % 2 = 1 THEN DataA ELSE DataB]

\* the lists of datasets handed to hybrid_learning: all of one feature count,
\* or one dataset of the list with a different feature count (1 or 3)
DataInputs ==
    UNION {{Uniform(n)} \cup
           {[Uniform(n) EXCEPT ![k] = d] : k \in 1..n, d \in {DataC, DataE}}
           : n \in 1..MaxData}

\* config['eta']
EtaValues == {Rat(3, 2)}

\* config['key_length']
KeyLength == 1024

ConfigInputs ==
    [n_clients : 1..MaxClients, n_iter : 0..MaxIter, eta : EtaValues,
     key_length : {KeyLength}]

(* ------------------------------- state -------------------------------- *)

VARIABLES
    pc,          \* where hybrid_learning stands
    config,      \* the config argument
    X, y,        \* the lists of local feature matrices and target vectors
    server,      \* the Server object
    clients,     \* the list of Party objects
    i,           \* the number of finished iterations of the training loop
    gradients,   \* the results asyncio.gather collects, by client index
    aggregate,   \* the aggregate: first ciphertexts, then plaintext
    c,           \* the index of the next client of the gradient-step loop
    err,         \* the exception that ended the session where pc stands,
                 \* "none" while it runs
    roundStart,  \* history: every client's weights when the round began
    stepsDone,   \* history: the gradient steps taken so far, per client
    received,    \* history: per vector handed to the server this round,
                 \*          the clients whose gradients it holds
    aggFrom,     \* history: the clients whose gradients the aggregate holds
    plainSeen    \* history: the client sets of every decrypted plaintext

vars == <<pc, config, X, y, server, clients, i, gradients, aggregate, c, err,
          roundStart, stepsDone, received, aggFrom, plainSeen>>

NParties == Len(clients)

Min(a, b) == IF a <= b THEN a ELSE b

Weights == [p \in 1..NParties |-> clients[p].model.weights]

\* the arguments of hybrid_learning, nothing constructed yet
Init ==
    /\ err = "none"
    /\ pc = "start"
    /\ config \in ConfigInputs
    /\ \E d \in DataInputs :
          /\ X = [k \in 1..Len(d) |-> d[k].X]
          /\ y = [k \in 1..Len(d) |-> d[k].y]
    /\ server = "None"
    /\ clients = <<>>
    /\ i = 0
    /\ gradients = <<>>
    /\ aggregate = <<>>
    /\ c = 1
    /\ err = "none"
    /\ roundStart = <<>>
    /\ stepsDone = <<>>
    /\ received = <<>>
    /\ aggFrom = {}
    /\ plainSeen = {}

(* ------------------------- hybrid_learning ---------------------------- *)

\* The server and its key pair, then one Party per (name, X[k], y[k]) of
\* zip(names, X, y): the shortest of the three lists decides how many.
Setup ==
    /\ err = "none"
    /\ pc = "start"
    /\ LET n == Min(config.n_clients, Min(Len(X), Len(y)))
           srv == Server_init(config.key_length, config.n_clients)
       IN  /\ server' = srv
           /\ clients' = [k \in 1..n |->
                             Party_init(<<"Hospital", k>>, X[k], y[k], srv.pubkey)]
           /\ stepsDone' = [k \in 1..n |-> 0]
    /\ i' = 0
    /\ pc' = "loop"
    /\ UNCHANGED <<config, X, y, gradients, aggregate, c, err, roundStart,
                   received, aggFrom, plainSeen>>

\* LoopHead with a fault: the loop bound is off by one (i <= n_iter)
LoopHead_OneMore ==
    /\ err = "none"
    /\ pc = "loop"
    /\ IF i <= config.n_iter
       THEN /\ pc' = "gather"
            /\ gradients' = <<>>
            /\ roundStart' = Weights
            /\ received' = <<>>
            /\ aggFrom' = {}
       ELSE /\ pc' = "report"
            /\ UNCHANGED <<gradients, roundStart, received, aggFrom>>
    /\ UNCHANGED <<config, X, y, server, clients, i, aggregate, c, err,
                   stepsDone, plainSeen>>

\* for i in range(n_iter): the next iteration, or the end of the loop
LoopHead ==
    /\ err = "none"
    /\ pc = "loop"
    /\ IF i < config.n_iter
       THEN /\ pc' = "gather"
            /\ gradients' = <<>>
            /\ roundStart' = Weights
            /\ received' = <<>>
            /\ aggFrom' = {}
       ELSE /\ pc' = "report"
            /\ UNCHANGED <<gradients, roundStart, received, aggFrom>>
    /\ UNCHANGED <<config, X, y, server, clients, i, aggregate, c, err,
                   stepsDone, plainSeen>>

\* one client's compute_partial_gradient task, run by asyncio.gather
ComputePartialGradient(p) ==
    /\ err = "none"
    /\ pc = "gather"
    /\ p \in 1..NParties
    /\ p \notin DOMAIN gradients
    /\ \E noise \in NoiseValues :
          gradients' = (p :> compute_partial_gradient(clients[p], noise)) @@ gradients
    /\ UNCHANGED <<pc, config, X, y, server, clients, i, aggregate, c, err,
                   roundStart, stepsDone, received, aggFrom, plainSeen>>

\* GatherReturn with a fault: the wait ends as soon as one task is done
GatherReturn_FirstDone ==
    /\ err = "none"
    /\ pc = "gather"
    /\ DOMAIN gradients # {}
    /\ gradients' = gradients
    /\ pc' = "aggregate"
    /\ UNCHANGED <<config, X, y, server, clients, i, aggregate, c, err,
                   roundStart, stepsDone, received, aggFrom, plainSeen>>

\* await asyncio.gather(...) returns the list of all results
GatherReturn ==
    /\ err = "none"
    /\ pc = "gather"
    /\ DOMAIN gradients = 1..NParties
    /\ gradients' = [p \in 1..NParties |-> gradients[p]]
    /\ pc' = "aggregate"
    /\ UNCHANGED <<config, X, y, server, clients, i, aggregate, c, err,
                   roundStart, stepsDone, received, aggFrom, plainSeen>>

\* aggregate = server.aggregate_gradients(gradients)
AggregateGradients ==
    /\ err = "none"
    /\ pc = "aggregate"
    /\ received' = [p \in 1..NParties |-> {p}]
    /\ \E legacy \in BOOLEAN :
          LET r == aggregate_gradients(server, gradients, legacy)
          IN  IF r.err = "none"
              THEN /\ aggregate' = r.val
                   /\ aggFrom' = 1..NParties
                   /\ pc' = "decrypt"
                   /\ err' = err
              ELSE /\ err' = r.err
                   /\ UNCHANGED <<pc, aggregate, aggFrom>>
    /\ UNCHANGED <<config, X, y, server, clients, i, gradients, c,
                   roundStart, stepsDone, plainSeen>>

\* aggregate = server.decrypt_gradient(aggregate)
DecryptGradient ==
    /\ err = "none"
    /\ pc = "decrypt"
    /\ IF \A j \in 1..Len(aggregate) : CanDecrypt(server.privkey, aggregate[j])
       THEN /\ aggregate' = decrypt_gradient(server, aggregate)
            /\ plainSeen' = plainSeen \cup {aggFrom}
            /\ pc' = "step"
            /\ c' = 1
            /\ err' = err
       ELSE /\ err' = "ValueError"
            /\ UNCHANGED <<pc, aggregate, plainSeen, c>>
    /\ UNCHANGED <<config, X, y, server, clients, i, gradients,
                   roundStart, stepsDone, received, aggFrom>>

\* GradientStep with a fault: the clients share one weights array, so a step of
\* one client moves the weights of all
GradientStep_Shared ==
    /\ err = "none"
    /\ pc = "step"
    /\ c <= NParties
    /\ IF CanStep(clients[c].model.weights, aggregate)
       THEN /\ clients' = [k \in 1..NParties |->
                              [clients[k] EXCEPT !.model.weights =
                                  gradient_step(clients[c].model.weights,
                                                aggregate, config.eta)]]
            /\ stepsDone' = [stepsDone EXCEPT ![c] = @ + 1]
            /\ c' = c + 1
            /\ UNCHANGED <<pc, err>>
       ELSE /\ err' = "ValueError"
            /\ UNCHANGED <<pc, clients, stepsDone, c>>
    /\ UNCHANGED <<config, X, y, server, i, gradients, aggregate,
                   roundStart, received, aggFrom, plainSeen>>

\* one pass of  for c in clients: c.model.gradient_step(aggregate, eta)
GradientStep ==
    /\ err = "none"
    /\ pc = "step"
    /\ c <= NParties
    /\ IF CanStep(clients[c].model.weights, aggregate)
       THEN /\ clients' = [clients EXCEPT ![c].model.weights =
                              gradient_step(@, aggregate, config.eta)]
            /\ stepsDone' = [stepsDone EXCEPT ![c] = @ + 1]
            /\ c' = c + 1
            /\ UNCHANGED <<pc, err>>
       ELSE /\ err' = "ValueError"
            /\ UNCHANGED <<pc, clients, stepsDone, c>>
    /\ UNCHANGED <<config, X, y, server, i, gradients, aggregate,
                   roundStart, received, aggFrom, plainSeen>>

\* the end of the loop body
EndRound ==
    /\ err = "none"
    /\ pc = "step"
    /\ c > NParties
    /\ i' = i + 1
    /\ pc' = "loop"
    /\ UNCHANGED <<config, X, y, server, clients, gradients, aggregate, c, err,
                   roundStart, stepsDone, received, aggFrom, plainSeen>>

\* the report of every client's error after the loop
Report ==
    /\ err = "none"
    /\ pc = "report"
    /\ pc' = "done"
    /\ UNCHANGED <<config, X, y, server, clients, i, gradients, aggregate, c,
                   err, roundStart, stepsDone, received, aggFrom, plainSeen>>

\* The session is aborted from outside (KeyboardInterrupt raised inside
\* loop.run_until_complete, the process stopped): hybrid_learning stops where
\* it stands and every object stays as it is.
Interrupt ==
    /\ err = "none"
    /\ pc # "done"
    /\ err' = "KeyboardInterrupt"
    /\ UNCHANGED <<pc, config, X, y, server, clients, i, gradients, aggregate,
                   c, roundStart, stepsDone, received, aggFrom, plainSeen>>

Next ==
    \/ Setup
    \/ LoopHead
    \/ \E p \in 1..MaxClients : ComputePartialGradient(p)
    \/ GatherReturn
    \/ AggregateGradients
    \/ DecryptGradient
    \/ GradientStep
    \/ EndRound
    \/ Report
    \/ Interrupt

Spec == Init /\ [][Next]_vars

(* ------------------------------ claims -------------------------------- *)

\* the number of parties the session is asked to run with
SessionParties == Min(config.n_clients, Min(Len(X), Len(y)))

\* the plaintext average of the contributed vectors, summed in the order perm
PlainAverage(perm, j) ==
    RDivInt(RSum([k \in 1..NParties |->
                     Decrypt(server.privkey, gradients[perm[k]][j])]),
            NParties)

\* C1: with at least three parties contributing vectors of one length, the
\* decrypted aggregate is the sum of the contributed vectors divided by the
\* number of parties that contributed, whatever the order of the sum.
C1_RingCorrectness ==
    (pc = "step" /\ NParties >= 3 /\ SameLengths(gradients)) =>
        \A j \in 1..Len(aggregate) :
            /\ aggregate[j] = PlainAverage([k \in 1..NParties |-> k], j)
            /\ aggregate[j] =
                   PlainAverage([k \in 1..NParties |-> NParties + 1 - k], j)

\* C2: a session with fewer than three parties ends at its start with
\* InsufficientPartiesError, before any party exists or any round runs; a
\* session with three parties does not end with that error.
C2_MinimumParties ==
    /\ SessionParties < 3 =>
          /\ pc = "start"
          /\ clients = <<>>
          /\ err \in {"none", "InsufficientPartiesError", "KeyboardInterrupt"}
    /\ SessionParties >= 3 => err # "InsufficientPartiesError"

\* the rounds finished so far have been applied by every party, and no party
\* has gone further
BetweenRounds ==
    \/ pc \in {"loop", "gather", "aggregate", "decrypt", "report", "done"}
    \/ pc = "step" /\ c = 1

\* C3: every party starts with zero weights, and whenever a round has been
\* completed all parties hold the same weight vector.
C3_WeightConsistency ==
    /\ (pc # "start" /\ i = 0 /\ BetweenRounds) =>
          \A p \in 1..NParties : Weights[p] = Zeros(Len(X[p][1]))
    /\ (i >= 1 /\ (BetweenRounds \/ (pc = "step" /\ c > NParties))) =>
          \A p, q \in 1..NParties : Weights[p] = Weights[q]

\* two completed rounds of three parties that moved the weights
C3_Witness ==
    /\ pc = "loop" /\ i = 2 /\ NParties >= 3
    /\ Weights[1] # Zeros(Len(X[1][1]))
    /\ Weights[1] = Weights[3]

\* C4: in a round of at least three parties the server is handed exactly one
\* ciphertext vector, the sum over all parties, and no single party's vector.
C4_ServerReceivesOnlyCombinedSum ==
    (NParties >= 3 /\ pc \in {"decrypt", "step"}) =>
        /\ Len(received) = 1
        /\ \A k \in 1..Len(received) : received[k] = 1..NParties

\* C5: whatever leaves a party is a ciphertext under the server's public key,
\* no party holds the private key, and every plaintext that decryption has
\* produced is the aggregate over all parties and not one party's gradient.
C5_Isolation ==
    pc # "start" =>
        /\ \A p \in DOMAIN gradients : \A j \in 1..Len(gradients[p]) :
              /\ IsCiphertext(gradients[p][j])
              /\ gradients[p][j].pk = server.pubkey.id
        /\ \A p \in 1..NParties : clients[p].pubkey.kind = "public"
        /\ \A S \in plainSeen : S = 1..NParties /\ Cardinality(S) > 1

\* C6: a round that ends with an exception before every party has applied
\* the aggregate leaves every party's weights as they were when it began.
C6_AbortLeavesWeightsUnchanged ==
    (err # "none" /\ pc = "step" /\ c <= NParties) => Weights = roundStart

\* C7: the loop runs the configured number of rounds, one after the other;
\* every gradient of a round is computed from the weights the round began
\* with, which every party reached by applying all earlier aggregates; the
\* aggregate applied in a round is the one computed from that round's
\* gradients.
C7_RoundOrdering ==
    /\ i <= config.n_iter
    /\ pc \in {"report", "done"} =>
          i = config.n_iter /\ \A p \in 1..NParties : stepsDone[p] = config.n_iter
    /\ pc \in {"gather", "aggregate", "decrypt", "step"} =>
          /\ \A p \in 1..NParties : roundStart[p] = Weights[p] \/ stepsDone[p] = i + 1
          /\ \A p \in DOMAIN gradients :
                LET g == compute_gradient(
                             [clients[p].model EXCEPT !.weights = roundStart[p]])
                IN  \E noise \in NoiseValues :
                       gradients[p] =
                           encrypt_vector(server.pubkey,
                                          [j \in 1..Len(g) |-> RAdd(g[j], noise)])
    /\ pc \in {"gather", "aggregate", "decrypt"} =>
          \A p \in 1..NParties : stepsDone[p] = i
    /\ pc = "step" =>
          /\ \A j \in 1..Len(aggregate) :
                aggregate[j] =
                    RDivInt(RSum([p \in 1..NParties |->
                                     At(gradients[p], j).pt]), server.n_clients)
          /\ \A p \in 1..NParties :
                /\ stepsDone[p] = (IF p < c THEN i + 1 ELSE i)
                /\ Weights[p] = (IF p < c
                                 THEN gradient_step(roundStart[p], aggregate,
                                                    config.eta)
                                 ELSE roundStart[p])

\* the second round's aggregate is being applied, by three parties
C7_Witness ==
    /\ pc = "step" /\ i = 1 /\ c = 2 /\ NParties >= 3
    /\ roundStart[1] # Zeros(Len(X[1][1]))

\* C8: when the gathered vectors are not all of one length the aggregation
\* does not succeed and no weights change: the session never goes on to
\* decrypt or apply a sum of vectors of unequal lengths.
C8_SizeMismatchFails ==
    (DOMAIN gradients = 1..NParties /\ NParties >= 1 /\ ~SameLengths(gradients)) =>
        /\ pc \in {"gather", "aggregate"}
        /\ Weights = roundStart

\* C9: computing a partial gradient leaves every weight vector alone; a
\* weight vector changes only in the gradient-step loop, only for the client
\* whose turn it is, by one step with the decrypted aggregate, once per
\* round; when a round ends every party has stepped exactly once in it.
C9_WeightsFrame ==
    [][/\ pc = "gather" => clients' = clients
       /\ \A p \in 1..NParties :
             (clients'[p].model.weights # clients[p].model.weights
              \/ stepsDone'[p] # stepsDone[p]) =>
                /\ pc = "step" /\ p = c
                /\ stepsDone[p] = i /\ stepsDone'[p] = i + 1
                /\ clients'[p].model.weights =
                       gradient_step(clients[p].model.weights, aggregate,
                                     config.eta)
       /\ (pc = "step" /\ i' = i + 1) =>
             \A p \in 1..NParties : stepsDone[p] = i + 1]_vars

\* the first of three parties has stepped, the others not yet
C9_Witness ==
    /\ pc = "step" /\ c = 2 /\ NParties >= 3 /\ err = "none"
    /\ Weights[1] # roundStart[1]
    /\ Weights[2] = roundStart[2] /\ Weights[3] = roundStart[3]

\* C10: the aggregation starts only when every party's encrypted gradient of
\* the round is there, and decryption only when the sum holds all of them.
C10_Barrier ==
    /\ pc \in {"aggregate", "decrypt", "step"} =>
          /\ DOMAIN gradients = 1..NParties
          /\ \A p \in 1..NParties : \A j \in 1..Len(gradients[p]) :
                IsCiphertext(gradients[p][j])
    /\ pc \in {"decrypt", "step"} => aggFrom = 1..NParties

\* three parties have all delivered and the aggregation is about to start
C10_Witness ==
    pc = "aggregate" /\ NParties >= 3 /\ err = "none" /\ i = 1

====
